---- MODULE Spec2Model ----
(***************************************************************************)
(* Thread-local random number generator (src/rngs/thread.rs).              *)
(*                                                                         *)
(* ThreadRng is a raw pointer into a thread-local UnsafeCell holding a     *)
(* ReseedingRng<Hc128Core, EntropyRng>.  The thread-local key, thread_rng, *)
(* Default, Clone and the RngCore impl are translated from thread.rs.      *)
(* ReseedingRng, Hc128Core and EntropyRng live in other files of the crate *)
(* and are modelled from the specification's description of them.          *)
(*                                                                         *)
(* Generated output is kept symbolically: a segment <<key, from, n>> is    *)
(* the n bytes of the key stream of `key` starting at offset `from`.       *)
(***************************************************************************)
EXTENDS Integers, Sequences, FiniteSets, TLC

VARIABLES
    reseed_threshold,   \* the threshold the build was compiled with
    os,                 \* per thread: the system entropy facility as seen from it
    THREAD_RNG_KEY,     \* per thread-local slot address: Uninit or a ReseedingRng
    handles,            \* per thread: its ThreadRng values (local variables)
    last,               \* the call that was made last and what its caller saw
    hist,               \* per slot: initialiser runs, seed events, bytes emitted
    single,             \* per thread: one-handle reference generator for the same calls
    singleLast,         \* what the reference generator produced for the last call
    calls,              \* number of generation calls made so far
    trace,              \* per thread: the generation calls it made, when recorded
    borrow,             \* per thread: the handle whose method holds &mut *self.rng
    life                \* per thread: running, exiting (destructors run), exited

vars == <<reseed_threshold, os, THREAD_RNG_KEY, handles, last, hist, single,
          singleLast, calls, trace, borrow, life>>

----------------------------------------------------------------------------
(* Bounds and input sets *)

MaxCalls == 3
ScaledThreshold == 16

THREAD_RNG_RESEED_THRESHOLD == 33554432

Threads == {"T1", "T2"}
\* the local variables of each thread that can hold a ThreadRng
HandleVars(t) == IF t = "T1" THEN {"a", "b"} ELSE {"a"}
\* the other thread-local values of a thread that can hold a ThreadRng
TlsVars == {"tls"}
\* invocation on which a thread's entropy source fails (0: never)
FailAts == {0, 1, 2}
\* the entropy stream each thread's source reads
StreamOf(t) == IF t = "T1" THEN 0 ELSE 1

Uninit == [state |-> "uninit"]
\* a slot whose value has been dropped by the thread's exit
Destroyed == [state |-> "destroyed"]
NoHandle == [rng |-> "null"]

Min(a, b) == IF a < b THEN a ELSE b

\* request sizes tried for fill_bytes / try_fill_bytes, scaled to the threshold
FillLens == {10, reseed_threshold}

----------------------------------------------------------------------------
(* EntropyRng: a counting entropy source that fails on invocation failAt   *)
(* (0 = never) and otherwise yields block number `count` of its stream.    *)

EntropyRng_new(t) == t

EntropyRng_try_fill(o) ==
    LET n == o.count + 1 IN
    [ok   |-> n # o.failAt,
     seed |-> <<o.stream, n>>,
     os   |-> [o EXCEPT !.count = n]]

(* Hc128Core: keyed deterministic stream; from_rng draws the key.          *)

Hc128Core_from_rng(o) ==
    LET d == EntropyRng_try_fill(o) IN
    [ok |-> d.ok, core |-> [key |-> d.seed, pos |-> 0], os |-> d.os]

Hc128Core_generate(core, n) ==
    [core |-> [core EXCEPT !.pos = @ + n], seg |-> <<core.key, core.pos, n>>]

----------------------------------------------------------------------------
(* ReseedingRng *)

ReseedingRng_new(core, threshold, reseeder) ==
    [inner |-> core, reseeder |-> reseeder, threshold |-> threshold,
     bytes_until_reseed |-> threshold]

\* faulty variant: the counter is reset before the entropy draw is known to succeed
ReseedingRng_reseed_counter_first(g, o) ==
    LET d == Hc128Core_from_rng(o) IN
    [ok |-> d.ok, os |-> d.os,
     rng |-> [g EXCEPT !.inner = IF d.ok THEN d.core ELSE @,
                       !.bytes_until_reseed = g.threshold]]

\* reseed: all or nothing
ReseedingRng_reseed(g, o) ==
    LET d == Hc128Core_from_rng(o) IN
    IF d.ok
    THEN [ok |-> TRUE, os |-> d.os,
          rng |-> [g EXCEPT !.inner = d.core, !.bytes_until_reseed = g.threshold]]
    ELSE [ok |-> FALSE, os |-> d.os, rng |-> g]

\* faulty variant: the budget is checked once per request and the whole
\* request is then charged to the counter
ReseedingRng_emit_per_request(g, o, k, acc) ==
    LET due == g.bytes_until_reseed <= 0
        r == IF due THEN ReseedingRng_reseed(g, o)
                    ELSE [ok |-> TRUE, os |-> o, rng |-> g]
        d == IF due THEN 1 ELSE 0
        c == Hc128Core_generate(r.rng.inner, k)
    IN IF r.ok
       THEN [rng |-> [r.rng EXCEPT !.inner = c.core, !.bytes_until_reseed = @ - k],
             os |-> r.os, err |-> FALSE, out |-> Append(acc.out, c.seg),
             draws |-> acc.draws + d, reseeds |-> acc.reseeds + d]
       ELSE [rng |-> r.rng, os |-> r.os, err |-> TRUE, out |-> acc.out,
             draws |-> acc.draws + 1, reseeds |-> acc.reseeds]

\* emit k bytes.  The counter is "decremented by every byte emitted" and "when
\* it reaches <= 0, a reseed is performed before further output is returned":
\* the budget check precedes every byte, so a request larger than the budget
\* left is served up to the budget, reseeds, and continues on the fresh key.
RECURSIVE ReseedingRng_emit(_, _, _, _)
ReseedingRng_emit(g, o, k, acc) ==
    IF k = 0
    THEN [rng |-> g, os |-> o, err |-> FALSE, out |-> acc.out,
          draws |-> acc.draws, reseeds |-> acc.reseeds]
    ELSE IF g.bytes_until_reseed <= 0
    THEN LET r == ReseedingRng_reseed(g, o) IN
         IF r.ok
         THEN ReseedingRng_emit(r.rng, r.os, k,
                  [acc EXCEPT !.draws = @ + 1, !.reseeds = @ + 1])
         ELSE [rng |-> r.rng, os |-> r.os, err |-> TRUE, out |-> acc.out,
               draws |-> acc.draws + 1, reseeds |-> acc.reseeds]
    ELSE LET n == Min(k, g.bytes_until_reseed)
             c == Hc128Core_generate(g.inner, n)
         IN ReseedingRng_emit(
                [g EXCEPT !.inner = c.core, !.bytes_until_reseed = @ - n],
                o, k - n, [acc EXCEPT !.out = Append(@, c.seg)])

NoOutput == [out |-> <<>>, draws |-> 0, reseeds |-> 0]

\* the fallible surface hands a reseed failure to the caller as an error
Fallible(r) ==
    [rng |-> r.rng, os |-> r.os, out |-> r.out, draws |-> r.draws,
     reseeds |-> r.reseeds, err |-> r.err, panic |-> FALSE]

\* the infallible surface turns a reseed failure into a fatal error
Infallible(r) ==
    [rng |-> r.rng, os |-> r.os, out |-> r.out, draws |-> r.draws,
     reseeds |-> r.reseeds, err |-> FALSE, panic |-> r.err]

ReseedingRng_try_fill_bytes(g, o, k) == Fallible(ReseedingRng_emit(g, o, k, NoOutput))
ReseedingRng_fill_bytes(g, o, k) == Infallible(ReseedingRng_emit(g, o, k, NoOutput))
ReseedingRng_next_u32(g, o) == Infallible(ReseedingRng_emit(g, o, 4, NoOutput))
ReseedingRng_next_u64(g, o) == Infallible(ReseedingRng_emit(g, o, 8, NoOutput))

StatusOf(r) == IF r.panic THEN "panic" ELSE IF r.err THEN "err" ELSE "ok"

----------------------------------------------------------------------------
(* thread.rs *)

NoCall == [thread |-> "none", op |-> "none", len |-> 0, status |-> "none",
           value |-> <<>>, dest |-> <<>>, draws |-> 0, reseeds |-> 0,
           before |-> 0]

NoHist == [constructed |-> 0, seeds |-> 0, emitted |-> 0, users |-> {}]

RECURSIVE Bytes(_)
Bytes(out) == IF out = <<>> THEN 0 ELSE Head(out)[3] + Bytes(Tail(out))

\* faulty variant: one cell shared by every thread, as a plain static would be
TlsAddr_shared(t) == "T1"

\* address of the thread-local cell of thread t
TlsAddr(t) == t

\* faulty variant: a failed seeding falls back to a core that was not seeded
THREAD_RNG_KEY_init_unseeded(t) ==
    LET entropy_source == EntropyRng_new(t)
        r == Hc128Core_from_rng(os[entropy_source])
    IN [ok |-> TRUE, os |-> r.os,
        rng |-> ReseedingRng_new(r.core, reseed_threshold, entropy_source)]

\* faulty variant: the initialiser passes twice the threshold
THREAD_RNG_KEY_init_double(t) ==
    LET entropy_source == EntropyRng_new(t)
        r == Hc128Core_from_rng(os[entropy_source])
    IN IF r.ok
       THEN [ok |-> TRUE, os |-> r.os,
             rng |-> ReseedingRng_new(r.core, 2 * reseed_threshold, entropy_source)]
       ELSE [ok |-> FALSE, os |-> r.os, rng |-> Uninit]

\* faulty variant: the initialiser passes half the threshold
THREAD_RNG_KEY_init_half(t) ==
    LET entropy_source == EntropyRng_new(t)
        r == Hc128Core_from_rng(os[entropy_source])
    IN IF r.ok
       THEN [ok |-> TRUE, os |-> r.os,
             rng |-> ReseedingRng_new(r.core, reseed_threshold \div 2, entropy_source)]
       ELSE [ok |-> FALSE, os |-> r.os, rng |-> Uninit]

\* faulty variant: the initialiser mixes the thread's identity into the key
THREAD_RNG_KEY_init_thread_salted(t) ==
    LET entropy_source == EntropyRng_new(t)
        r == Hc128Core_from_rng(os[entropy_source])
        salted == [r.core EXCEPT !.key = <<StreamOf(t), @[2]>>]
    IN IF r.ok
       THEN [ok |-> TRUE, os |-> r.os,
             rng |-> ReseedingRng_new(salted, reseed_threshold, entropy_source)]
       ELSE [ok |-> FALSE, os |-> r.os, rng |-> Uninit]

\* the lazy initialiser of THREAD_RNG_KEY, run on thread t
THREAD_RNG_KEY_init(t) ==
    LET entropy_source == EntropyRng_new(t)
        r == Hc128Core_from_rng(os[entropy_source])
    IN IF r.ok
       THEN [ok |-> TRUE, os |-> r.os,
             rng |-> ReseedingRng_new(r.core, reseed_threshold, entropy_source)]
       ELSE [ok |-> FALSE, os |-> r.os, rng |-> Uninit]   \* panic!(...)

\* faulty variant: the initialiser runs on every access
LocalKey_with_always_init(t) ==
    LET i == THREAD_RNG_KEY_init(t) IN
    [ok |-> i.ok, ran |-> TRUE, os |-> i.os, rng |-> i.rng]

\* THREAD_RNG_KEY.with on thread t: initialise the cell on first access only
LocalKey_with(t) ==
    IF THREAD_RNG_KEY[TlsAddr(t)] # Uninit
    THEN [ok |-> TRUE, ran |-> FALSE, os |-> os[t],
          rng |-> THREAD_RNG_KEY[TlsAddr(t)]]
    ELSE LET i == THREAD_RNG_KEY_init(t) IN
         [ok |-> i.ok, ran |-> TRUE, os |-> i.os, rng |-> i.rng]

thread_rng(t, h) ==
    /\ handles[t][h] = NoHandle
    /\ LET a == TlsAddr(t)
           k == LocalKey_with(t)
       IN /\ THREAD_RNG_KEY' = [THREAD_RNG_KEY EXCEPT ![a] = k.rng]
          /\ os' = [os EXCEPT ![t] = k.os]
          /\ handles' = [handles EXCEPT
                            ![t][h] = IF k.ok THEN [rng |-> a] ELSE NoHandle]
          /\ hist' = IF k.ran /\ k.ok
                     THEN [hist EXCEPT ![a] = [constructed |-> @.constructed + 1,
                                               seeds |-> 1, emitted |-> 0,
                                               users |-> {}]]
                     ELSE hist
          /\ single' = IF k.ran /\ k.ok THEN [single EXCEPT ![t] = k.rng] ELSE single
          /\ last' = [NoCall EXCEPT !.thread = t, !.op = "thread_rng",
                         !.status = IF k.ok THEN "ok" ELSE "panic",
                         !.draws = IF k.ran THEN 1 ELSE 0]
          /\ singleLast' = NoCall
    /\ UNCHANGED <<reseed_threshold, calls>>

\* impl Default for ThreadRng
ThreadRng_default(t, h) == thread_rng(t, h)

\* #[derive(Clone)]: copies the pointer
ThreadRng_clone(self) == [rng |-> self.rng]

Clone(t, h, h2) ==
    /\ handles[t][h] # NoHandle
    /\ handles[t][h2] = NoHandle
    /\ handles' = [handles EXCEPT ![t][h2] = ThreadRng_clone(handles[t][h])]
    /\ UNCHANGED <<reseed_threshold, os, THREAD_RNG_KEY, hist, single, calls,
                   last, singleLast>>

\* faulty variant: dropping a thread's last handle tears its generator down
Drop_teardown(t, h) ==
    /\ handles[t][h] # NoHandle
    /\ handles' = [handles EXCEPT ![t][h] = NoHandle]
    /\ THREAD_RNG_KEY' =
          IF \A h2 \in DOMAIN handles[t] : h2 # h => handles[t][h2] = NoHandle
          THEN [THREAD_RNG_KEY EXCEPT ![handles[t][h].rng] = Uninit]
          ELSE THREAD_RNG_KEY
    /\ UNCHANGED <<reseed_threshold, os, hist, single, calls, last, singleLast>>

\* a ThreadRng going out of scope: the struct has no destructor
Drop(t, h) ==
    /\ handles[t][h] # NoHandle
    /\ handles' = [handles EXCEPT ![t][h] = NoHandle]
    /\ UNCHANGED <<reseed_threshold, os, THREAD_RNG_KEY, hist, single, calls,
                   last, singleLast>>

\* the same request made through the one handle of the reference generator
Reference(t, op, k, s) ==
    /\ single' = [single EXCEPT ![t] = s.rng]
    /\ singleLast' = [thread |-> t, op |-> op, len |-> k, status |-> StatusOf(s),
                      value |-> IF StatusOf(s) = "ok" THEN s.out ELSE <<>>,
                      dest |-> s.out, draws |-> s.draws, reseeds |-> s.reseeds,
                      before |-> single[t].bytes_until_reseed]

\* faulty variant: the handle works on a private copy of the generator
Store_to_copy(self, rng) == THREAD_RNG_KEY

\* writing the generator's new state through the handle's pointer
Store(self, rng) == [THREAD_RNG_KEY EXCEPT ![self.rng] = rng]

\* effect of a generation call made through *self.rng that ran as r
Returns(t, h, op, k, r) ==
    LET self == handles[t][h]
        g == THREAD_RNG_KEY[self.rng]
    IN
    /\ THREAD_RNG_KEY' = Store(self, r.rng)
    /\ os' = [os EXCEPT ![g.reseeder] = r.os]
    /\ hist' = [hist EXCEPT ![self.rng].seeds = @ + r.reseeds,
                            ![self.rng].emitted = @ + Bytes(r.out),
                            ![self.rng].users = @ \cup {<<t, h>>}]
    /\ last' = [thread |-> t, op |-> op, len |-> k, status |-> StatusOf(r),
                value |-> IF StatusOf(r) = "ok" THEN r.out ELSE <<>>,
                dest |-> r.out, draws |-> r.draws, reseeds |-> r.reseeds,
                before |-> g.bytes_until_reseed]
    /\ calls' = calls + 1
    /\ UNCHANGED <<reseed_threshold, handles>>

\* faulty variant: next_u32 reaches past the reseeding wrapper to the core
next_u32_unchecked(t, h) ==
    /\ calls < MaxCalls
    /\ handles[t][h] # NoHandle
    /\ LET g == THREAD_RNG_KEY[handles[t][h].rng]
           c == Hc128Core_generate(g.inner, 4)
       IN Returns(t, h, "next_u32", 4,
                  [rng |-> [g EXCEPT !.inner = c.core, !.bytes_until_reseed = @ - 4],
                   os |-> os[g.reseeder], out |-> <<c.seg>>, draws |-> 0,
                   reseeds |-> 0, err |-> FALSE, panic |-> FALSE])
    /\ Reference(t, "next_u32", 4, ReseedingRng_next_u32(single[t], os[t]))

next_u32(t, h) ==
    /\ calls < MaxCalls
    /\ handles[t][h] # NoHandle
    /\ LET g == THREAD_RNG_KEY[handles[t][h].rng]
       IN Returns(t, h, "next_u32", 4, ReseedingRng_next_u32(g, os[g.reseeder]))
    /\ Reference(t, "next_u32", 4, ReseedingRng_next_u32(single[t], os[t]))

\* faulty variant: next_u64 widens the result of the 32-bit call
next_u64_from_u32(t, h) ==
    /\ calls < MaxCalls
    /\ handles[t][h] # NoHandle
    /\ LET g == THREAD_RNG_KEY[handles[t][h].rng]
       IN Returns(t, h, "next_u64", 8, ReseedingRng_next_u32(g, os[g.reseeder]))
    /\ Reference(t, "next_u64", 8, ReseedingRng_next_u64(single[t], os[t]))

next_u64(t, h) ==
    /\ calls < MaxCalls
    /\ handles[t][h] # NoHandle
    /\ LET g == THREAD_RNG_KEY[handles[t][h].rng]
       IN Returns(t, h, "next_u64", 8, ReseedingRng_next_u64(g, os[g.reseeder]))
    /\ Reference(t, "next_u64", 8, ReseedingRng_next_u64(single[t], os[t]))

\* faulty variant: fill_bytes drops the result of the fallible call
fill_bytes_ignoring_error(t, h, k) ==
    /\ calls < MaxCalls
    /\ handles[t][h] # NoHandle
    /\ LET g == THREAD_RNG_KEY[handles[t][h].rng]
           r == ReseedingRng_try_fill_bytes(g, os[g.reseeder], k)
       IN Returns(t, h, "fill_bytes", k, [r EXCEPT !.err = FALSE])
    /\ Reference(t, "fill_bytes", k, ReseedingRng_fill_bytes(single[t], os[t], k))

fill_bytes(t, h, k) ==
    /\ calls < MaxCalls
    /\ handles[t][h] # NoHandle
    /\ LET g == THREAD_RNG_KEY[handles[t][h].rng]
       IN Returns(t, h, "fill_bytes", k, ReseedingRng_fill_bytes(g, os[g.reseeder], k))
    /\ Reference(t, "fill_bytes", k, ReseedingRng_fill_bytes(single[t], os[t], k))

\* faulty variant: try_fill_bytes wraps the infallible call in Ok
try_fill_bytes_via_fill(t, h, k) ==
    /\ calls < MaxCalls
    /\ handles[t][h] # NoHandle
    /\ LET g == THREAD_RNG_KEY[handles[t][h].rng]
       IN Returns(t, h, "try_fill_bytes", k, ReseedingRng_fill_bytes(g, os[g.reseeder], k))
    /\ Reference(t, "try_fill_bytes", k, ReseedingRng_try_fill_bytes(single[t], os[t], k))

\* faulty variant: try_fill_bytes tries once more when the first attempt fails
try_fill_bytes_retrying(t, h, k) ==
    /\ calls < MaxCalls
    /\ handles[t][h] # NoHandle
    /\ LET g == THREAD_RNG_KEY[handles[t][h].rng]
           r1 == ReseedingRng_try_fill_bytes(g, os[g.reseeder], k)
           r2 == ReseedingRng_try_fill_bytes(r1.rng, r1.os, k - Bytes(r1.out))
       IN Returns(t, h, "try_fill_bytes", k,
                  IF r1.err
                  THEN [r2 EXCEPT !.out = r1.out \o r2.out,
                                  !.draws = r1.draws + r2.draws,
                                  !.reseeds = r1.reseeds + r2.reseeds]
                  ELSE r1)
    /\ Reference(t, "try_fill_bytes", k, ReseedingRng_try_fill_bytes(single[t], os[t], k))

try_fill_bytes(t, h, k) ==
    /\ calls < MaxCalls
    /\ handles[t][h] # NoHandle
    /\ LET g == THREAD_RNG_KEY[handles[t][h].rng]
       IN Returns(t, h, "try_fill_bytes", k, ReseedingRng_try_fill_bytes(g, os[g.reseeder], k))
    /\ Reference(t, "try_fill_bytes", k, ReseedingRng_try_fill_bytes(single[t], os[t], k))

----------------------------------------------------------------------------
(* Specifications *)

\* no thread has touched the facility yet
Fresh ==
    /\ THREAD_RNG_KEY = [a \in Threads |-> Uninit]
    /\ handles = [t \in Threads |-> [h \in HandleVars(t) \cup TlsVars |-> NoHandle]]
    /\ last = NoCall
    /\ hist = [a \in Threads |-> NoHist]
    /\ single = [t \in Threads |-> Uninit]
    /\ singleLast = NoCall
    /\ calls = 0
    /\ trace = [t \in Threads |-> <<>>]
    /\ borrow = [t \in Threads |-> "idle"]
    /\ life = [t \in Threads |-> "running"]

InitWith(th) ==
    /\ reseed_threshold = th
    /\ os \in [Threads -> [stream : {0, 1}, failAt : FailAts, count : {0}]]
    /\ \A t \in Threads : os[t].stream = StreamOf(t)
    /\ Fresh

Init == InitWith(THREAD_RNG_RESEED_THRESHOLD)

\* the same program built with the threshold scaled down to 16 bytes
InitScaled == InitWith(ScaledThreshold)

\* calls taken as single steps of threads that do not exit
Whole == UNCHANGED <<borrow, life>>

\* the calls are not recorded
Unrecorded == UNCHANGED trace /\ Whole

Next ==
    \/ \E t \in Threads : \E h \in HandleVars(t) : thread_rng(t, h) /\ Unrecorded
    \/ \E t \in Threads : \E h \in HandleVars(t) : ThreadRng_default(t, h) /\ Unrecorded
    \/ \E t \in Threads : \E h \in HandleVars(t), h2 \in HandleVars(t) : Clone(t, h, h2) /\ Unrecorded
    \/ \E t \in Threads : \E h \in HandleVars(t) : Drop(t, h) /\ Unrecorded
    \/ \E t \in Threads : \E h \in HandleVars(t) : next_u32(t, h) /\ Unrecorded
    \/ \E t \in Threads : \E h \in HandleVars(t) : next_u64(t, h) /\ Unrecorded
    \/ \E t \in Threads : \E h \in HandleVars(t), k \in FillLens : fill_bytes(t, h, k) /\ Unrecorded
    \/ \E t \in Threads : \E h \in HandleVars(t), k \in FillLens : try_fill_bytes(t, h, k) /\ Unrecorded

Spec == Init /\ [][Next]_vars

SpecScaled == InitScaled /\ [][Next]_vars

\* two threads whose entropy sources are the same test double: the same
\* stream, failing on the same invocation; threshold scaled down further so
\* that a single request can cross it
InitTwin ==
    /\ reseed_threshold = ScaledThreshold \div 2
    /\ \E f \in FailAts :
          os = [t \in Threads |-> [stream |-> 0, failAt |-> f, count |-> 0]]
    /\ Fresh

\* what the caller of every generation call asked for and saw, per thread
Recorded ==
    trace' = IF calls' # calls
             THEN [trace EXCEPT ![last'.thread] =
                      Append(@, [op |-> last'.op, len |-> last'.len,
                                 status |-> last'.status, dest |-> last'.dest,
                                 draws |-> last'.draws, reseeds |-> last'.reseeds])]
             ELSE trace

\* the calls are recorded
Logged == Recorded /\ Whole

NextTwin ==
    \/ \E t \in Threads : \E h \in HandleVars(t) : thread_rng(t, h) /\ Logged
    \/ \E t \in Threads : \E h \in HandleVars(t) : ThreadRng_default(t, h) /\ Logged
    \/ \E t \in Threads : \E h \in HandleVars(t), h2 \in HandleVars(t) : Clone(t, h, h2) /\ Logged
    \/ \E t \in Threads : \E h \in HandleVars(t) : Drop(t, h) /\ Logged
    \/ \E t \in Threads : \E h \in HandleVars(t) : next_u32(t, h) /\ Logged
    \/ \E t \in Threads : \E h \in HandleVars(t) : next_u64(t, h) /\ Logged
    \/ \E t \in Threads : \E h \in HandleVars(t), k \in FillLens : fill_bytes(t, h, k) /\ Logged
    \/ \E t \in Threads : \E h \in HandleVars(t), k \in FillLens : try_fill_bytes(t, h, k) /\ Logged

SpecTwin == InitTwin /\ [][NextTwin]_vars

\* a method of handle h begins: unsafe { (*self.rng) ... } takes the
\* exclusive reference to the generator for the call
Deref(t, h) ==
    /\ calls < MaxCalls
    /\ borrow[t] = "idle"
    /\ handles[t][h] # NoHandle
    /\ borrow' = [borrow EXCEPT ![t] = h]
    /\ UNCHANGED <<reseed_threshold, os, THREAD_RNG_KEY, handles, last, hist,
                   single, singleLast, calls, trace, life>>

\* the method that began on handle h returns: the reference is gone
Release(t, h) ==
    /\ borrow[t] = h
    /\ borrow' = [borrow EXCEPT ![t] = "idle"]
    /\ UNCHANGED <<trace, life>>

\* a thread runs one thing at a time: what is not a method body runs
\* between calls
Idle(t) ==
    /\ borrow[t] = "idle"
    /\ UNCHANGED <<trace, borrow, life>>

\* every generation call in two steps, its beginning and its return, so that
\* calls of different threads overlap
NextBorrow ==
    \/ \E t \in Threads : \E h \in HandleVars(t) : thread_rng(t, h) /\ Idle(t)
    \/ \E t \in Threads : \E h \in HandleVars(t) : ThreadRng_default(t, h) /\ Idle(t)
    \/ \E t \in Threads : \E h \in HandleVars(t), h2 \in HandleVars(t) : Clone(t, h, h2) /\ Idle(t)
    \/ \E t \in Threads : \E h \in HandleVars(t) : Drop(t, h) /\ Idle(t)
    \/ \E t \in Threads : \E h \in HandleVars(t) : Deref(t, h)
    \/ \E t \in Threads : \E h \in HandleVars(t) : next_u32(t, h) /\ Release(t, h)
    \/ \E t \in Threads : \E h \in HandleVars(t) : next_u64(t, h) /\ Release(t, h)
    \/ \E t \in Threads : \E h \in HandleVars(t), k \in FillLens : fill_bytes(t, h, k) /\ Release(t, h)
    \/ \E t \in Threads : \E h \in HandleVars(t), k \in FillLens : try_fill_bytes(t, h, k) /\ Release(t, h)

SpecBorrow == Init /\ [][NextBorrow]_vars

\* a step of the body of a thread that has not returned
Running(t) ==
    /\ life[t] = "running"
    /\ UNCHANGED <<trace, borrow, life>>

\* the thread's function returns: its locals are dropped, its thread-local
\* values are still to be destroyed, in no particular order
ThreadExit(t) ==
    /\ life[t] = "running"
    /\ life' = [life EXCEPT ![t] = "exiting"]
    /\ handles' = [handles EXCEPT ![t] =
                      [h \in DOMAIN @ |-> IF h \in TlsVars THEN @[h] ELSE NoHandle]]
    /\ UNCHANGED <<reseed_threshold, os, THREAD_RNG_KEY, hist, single, calls,
                   last, singleLast, trace, borrow>>

\* the value of THREAD_RNG_KEY is torn down at the exit of its thread
DestroyKey(t) ==
    /\ life[t] = "exiting"
    /\ THREAD_RNG_KEY[TlsAddr(t)] \notin {Uninit, Destroyed}
    /\ THREAD_RNG_KEY' = [THREAD_RNG_KEY EXCEPT ![TlsAddr(t)] = Destroyed]
    /\ UNCHANGED <<reseed_threshold, os, handles, hist, single, calls, last,
                   singleLast, trace, borrow, life>>

\* a step of the destructor of thread-local value v, whose ThreadRng points
\* to a generator that is still there
InDestructor(t, v) ==
    /\ life[t] = "exiting"
    /\ handles[t][v] # NoHandle
    /\ THREAD_RNG_KEY[handles[t][v].rng] # Destroyed
    /\ UNCHANGED <<trace, borrow, life>>

\* what a read through a dangling pointer may give
Garbage == <<<<-1, 0>>, 0, 4>>

\* the destructor of thread-local value v calls next_u32 on its ThreadRng
\* after the generator was torn down: (*self.rng) is a dangling pointer, the
\* behaviour is undefined and the call may return anything or crash
UseAfterTeardown(t, v) ==
    /\ calls < MaxCalls
    /\ life[t] = "exiting"
    /\ handles[t][v] # NoHandle
    /\ THREAD_RNG_KEY[handles[t][v].rng] = Destroyed
    /\ \E outcome \in {"ok", "crash"} :
          last' = [NoCall EXCEPT !.thread = t, !.op = "next_u32", !.len = 4,
                      !.status = outcome,
                      !.value = IF outcome = "ok" THEN <<Garbage>> ELSE <<>>]
    /\ life' = [life EXCEPT ![t] = "undefined"]
    /\ calls' = calls + 1
    /\ singleLast' = NoCall
    /\ UNCHANGED <<reseed_threshold, os, THREAD_RNG_KEY, handles, hist, single,
                   trace, borrow>>

\* every thread-local value of the thread has been destroyed
Exited(t) ==
    /\ life[t] = "exiting"
    /\ \A h \in DOMAIN handles[t] : handles[t][h] = NoHandle
    /\ THREAD_RNG_KEY[TlsAddr(t)] \in {Uninit, Destroyed}
    /\ life' = [life EXCEPT ![t] = "exited"]
    /\ UNCHANGED <<reseed_threshold, os, THREAD_RNG_KEY, handles, hist, single,
                   calls, last, singleLast, trace, borrow>>

\* program start with entropy sources that never fail
InitExit ==
    /\ Init
    /\ \A t \in Threads : os[t].failAt = 0

\* threads that keep a ThreadRng in another thread-local value and exit
NextExit ==
    \/ \E t \in Threads : \E h \in HandleVars(t) : thread_rng(t, h) /\ Running(t)
    \/ \E t \in Threads : \E h \in HandleVars(t) : ThreadRng_default(t, h) /\ Running(t)
    \/ \E t \in Threads : \E h \in HandleVars(t), h2 \in HandleVars(t) : Clone(t, h, h2) /\ Running(t)
    \/ \E t \in Threads : \E h \in HandleVars(t) : Drop(t, h) /\ Running(t)
    \/ \E t \in Threads : \E h \in HandleVars(t) : next_u32(t, h) /\ Running(t)
    \/ \E t \in Threads : \E h \in HandleVars(t) : next_u64(t, h) /\ Running(t)
    \/ \E t \in Threads : \E h \in HandleVars(t), k \in FillLens : fill_bytes(t, h, k) /\ Running(t)
    \/ \E t \in Threads : \E h \in HandleVars(t), k \in FillLens : try_fill_bytes(t, h, k) /\ Running(t)
    \/ \E t \in Threads : \E h \in HandleVars(t), v \in TlsVars : Clone(t, h, v) /\ Running(t)
    \/ \E t \in Threads : ThreadExit(t)
    \/ \E t \in Threads : DestroyKey(t)
    \/ \E t \in Threads : \E v \in TlsVars : InDestructor(t, v) /\ next_u32(t, v)
    \/ \E t \in Threads : \E v \in TlsVars : UseAfterTeardown(t, v)
    \/ \E t \in Threads : \E v \in TlsVars : InDestructor(t, v) /\ Drop(t, v)
    \/ \E t \in Threads : Exited(t)

SpecExit == InitExit /\ [][NextExit]_vars

----------------------------------------------------------------------------
(* Properties *)

Initialised(t) == THREAD_RNG_KEY[TlsAddr(t)] # Uninit

GenOps == {"next_u32", "next_u64", "fill_bytes", "try_fill_bytes"}

\* C1: on every thread the generator is constructed exactly once, by the
\* first thread_rng()/default() call; every handle of the thread points to
\* that one stored instance, and later calls construct nothing.
C1_ConstructedOnce ==
    \A t \in Threads :
        /\ hist[TlsAddr(t)].constructed = (IF Initialised(t) THEN 1 ELSE 0)
        /\ \A h \in HandleVars(t) :
              handles[t][h] # NoHandle =>
                  /\ handles[t][h].rng = TlsAddr(t)
                  /\ Initialised(t)
        /\ (last.thread = t /\ last.op = "thread_rng" /\ last.status = "ok"
              /\ last.draws = 0) => hist[TlsAddr(t)].constructed = 1

\* a second thread_rng() on T1 found the generator already there, after use
C1_Witness ==
    /\ handles["T1"]["a"] # NoHandle
    /\ handles["T1"]["b"] # NoHandle
    /\ last.thread = "T1" /\ last.op = "thread_rng" /\ last.draws = 0
    /\ hist["T1"].emitted > 0

\* C2: the generator a thread's handles act on is, after any interleaving of
\* calls through them, in the state of one generator that received all those
\* calls through a single handle, and every call returned what that single
\* handle would have returned (output, error and reseeds alike).
C2_HandlesShareState ==
    \A t \in Threads :
        /\ Initialised(t) => THREAD_RNG_KEY[TlsAddr(t)] = single[t]
        /\ (last.thread = t /\ last.op \in GenOps) => last = singleLast

\* both handles of T1 have generated, the later call through the clone "b"
\* crossing a reseed
C2_Witness ==
    /\ hist["T1"].users = {<<"T1", "a">>, <<"T1", "b">>}
    /\ last.thread = "T1" /\ last.status = "ok" /\ last.reseeds = 1
    /\ Len(last.value) = 2

\* the thread a step belongs to
Actor(u) ==
    \/ handles'[u] # handles[u]
    \/ calls' # calls /\ last'.thread = u
    \/ handles' = handles /\ calls' = calls /\ last'.thread = u

ThreadState(t) == <<THREAD_RNG_KEY[TlsAddr(t)], os[t], hist[TlsAddr(t)],
                    single[t], handles[t]>>

\* C3: a call made on one thread leaves every other thread's generator
\* (core state, bytes_until_reseed, seed events), entropy source and handles
\* exactly as they were, and the output a thread receives is generated from
\* keys drawn from its own entropy source only.
C3_ThreadsIndependent ==
    /\ [](\A i \in 1..Len(last.dest) : last.dest[i][1][1] = StreamOf(last.thread))
    /\ [][\A t \in Threads : ~Actor(t) => ThreadState(t)' = ThreadState(t)]_vars

\* both threads have generated output, each from its own generator
C3_Witness ==
    /\ hist["T1"].emitted > 0 /\ hist["T2"].emitted > 0
    /\ THREAD_RNG_KEY["T1"].inner.key[1] = StreamOf("T1")
    /\ THREAD_RNG_KEY["T2"].inner.key[1] = StreamOf("T2")
    /\ last.thread = "T2" /\ last.op \in GenOps

\* the successful seed events a generator needs for the bytes it has emitted:
\* the initial one, and one for each time a byte was wanted past the budget
Crossings(a) ==
    IF hist[a].emitted = 0 THEN 0 ELSE (hist[a].emitted - 1) \div reseed_threshold

\* invocations of thread t's entropy source that failed
Failures(t) == IF os[t].failAt \in 1..os[t].count THEN 1 ELSE 0

FailedInCall ==
    LET o == os[last.thread] IN
    o.failAt \in (o.count - last.draws + 1)..o.count

C8_InfallibleOrFatal ==
    last.op \in {"next_u32", "next_u64", "fill_bytes"} =>
        /\ last.status \in {"ok", "panic"}
        /\ last.status = "panic" <=> FailedInCall
        /\ last.status = "ok" => Bytes(last.value) = last.len
        /\ last.status = "panic" => last.value = <<>>

\* a mandatory reseed failed inside fill_bytes
C8_Witness ==
    /\ last.op = "fill_bytes" /\ last.status = "panic"
    /\ os[last.thread].failAt = os[last.thread].count

\* C9: when the entropy source fails during first-access initialisation,
\* thread_rng() ends fatally, returns no handle and stores no generator; a
\* handle exists only for a stored generator, and a stored generator's core
\* key was drawn by an entropy invocation that succeeded.
C9_FailClosed ==
    \A t \in Threads :
        /\ (\E h \in HandleVars(t) : handles[t][h] # NoHandle) => Initialised(t)
        /\ Initialised(t) =>
              LET g == THREAD_RNG_KEY[TlsAddr(t)] IN
              /\ g.inner.key[1] = os[g.reseeder].stream
              /\ g.inner.key[2] \in 1..os[g.reseeder].count
              /\ g.inner.key[2] # os[g.reseeder].failAt
        /\ (last.thread = t /\ last.op = "thread_rng") =>
              /\ (last.draws = 1 /\ os[t].failAt = os[t].count)
                    <=> last.status = "panic"
              /\ last.status = "panic" =>
                    /\ ~Initialised(t)
                    /\ \A h \in HandleVars(t) : handles[t][h] = NoHandle

\* the first thread_rng() on T1 found no entropy
C9_Witness ==
    /\ last.thread = "T1" /\ last.op = "thread_rng" /\ last.status = "panic"
    /\ os["T1"].failAt = 1 /\ os["T1"].count = 1

\* C10: a generation call leaves the generator either advanced by the bytes
\* it emitted on the key it had, or, for a reseed that succeeded, with a
\* wholly fresh core and the counter counted down from the threshold; a
\* reseed that failed has changed neither core nor counter, the error went to
\* the caller, and nothing was emitted afterwards.
C10_ReseedAllOrNothing ==
    [][calls' # calls =>
        LET t == last'.thread
            g == THREAD_RNG_KEY[TlsAddr(t)]
            n == THREAD_RNG_KEY'[TlsAddr(t)]
            done == Bytes(last'.dest)
        IN /\ n.threshold = g.threshold /\ n.reseeder = g.reseeder
           /\ IF last'.reseeds = 0
              THEN /\ n.inner.key = g.inner.key
                   /\ n.inner.pos = g.inner.pos + done
                   /\ n.bytes_until_reseed = g.bytes_until_reseed - done
              ELSE /\ n.inner.key[1] = os[t].stream
                   /\ n.inner.key[2] \in (os[t].count + 1)..os'[t].count
                   /\ n.inner.key[2] # os[t].failAt
                   /\ n.inner.pos <= done
                   /\ n.bytes_until_reseed = n.threshold - n.inner.pos
           /\ (last'.draws > last'.reseeds) <=> last'.status \in {"err", "panic"}
           /\ last'.status \in {"err", "panic"} =>
                 /\ last'.value = <<>>
                 /\ n.bytes_until_reseed <= 0
                 /\ done < last'.len
    ]_vars

\* a reseed failed and, on the caller's retry, succeeded
C10_Witness ==
    /\ os["T1"].failAt = 2 /\ os["T1"].count = 3
    /\ last.thread = "T1" /\ last.op = "try_fill_bytes" /\ last.status = "ok"
    /\ last.reseeds = 1 /\ last.before = 0
    /\ THREAD_RNG_KEY["T1"].inner.key = <<0, 3>>

EmitLen(c) ==
    IF c.op = "next_u32" THEN 4 ELSE IF c.op = "next_u64" THEN 8 ELSE c.len

\* C14: a generation call that does not reseed lowers the counter by exactly
\* the bytes it emitted (4 for next_u32, 8 for next_u64, the buffer length
\* for the fill calls, when it succeeds); a call that reseeds leaves it at
\* the threshold less the bytes emitted since; nothing else changes it.
C14_CounterDecrement ==
    [][\A t \in Threads :
          Initialised(t) =>
              LET g == THREAD_RNG_KEY[TlsAddr(t)]
                  n == THREAD_RNG_KEY'[TlsAddr(t)]
                  out == last'.dest
              IN IF calls' # calls /\ last'.thread = t
                 THEN /\ last'.status = "ok" => Bytes(out) = EmitLen(last')
                      /\ IF last'.reseeds = 0
                         THEN /\ n.bytes_until_reseed
                                    = g.bytes_until_reseed - Bytes(out)
                              /\ n.bytes_until_reseed <= g.bytes_until_reseed
                         ELSE n.bytes_until_reseed
                                    = n.threshold - out[Len(out)][3]
                 ELSE n.bytes_until_reseed = g.bytes_until_reseed
    ]_vars

\* a 32-bit and a 64-bit word were emitted on the first key
C14_Witness ==
    /\ hist["T1"].emitted = 12 /\ hist["T1"].seeds = 1
    /\ last.thread = "T1" /\ last.op = "next_u64" /\ last.status = "ok"
    /\ THREAD_RNG_KEY["T1"].bytes_until_reseed = reseed_threshold - 12

\* C16: on a thread whose generator is initialised, thread_rng(), default(),
\* clone and drop leave the generator, its entropy source and its history as
\* they were; dropping the last handle does not tear the generator down.
C16_HandlesDoNotTouchGenerator ==
    [][calls' = calls =>
        \A t \in Threads :
            Initialised(t) =>
                /\ THREAD_RNG_KEY'[TlsAddr(t)] = THREAD_RNG_KEY[TlsAddr(t)]
                /\ os'[t] = os[t]
                /\ hist'[TlsAddr(t)] = hist[TlsAddr(t)]
    ]_vars

\* T1 has used its generator and dropped every handle; the generator is there
C16_Witness ==
    /\ Initialised("T1") /\ hist["T1"].emitted > 0
    /\ \A h \in HandleVars("T1") : handles["T1"][h] = NoHandle

\* C17: a call whose seed or reseed attempt fails has invoked the entropy
\* source exactly once, the failing time, and reports the failure; after a
\* failed generation call the generator is still due for reseed, and the
\* thread's next generation call draws again before it emits anything.
C17_NoInternalRetry ==
    /\ []( /\ (last.op \in GenOps \cup {"thread_rng"} /\ FailedInCall) =>
                 /\ last.status \in {"err", "panic"}
                 /\ last.draws = 1
                 /\ os[last.thread].count = os[last.thread].failAt
           /\ (last.op \in GenOps /\ last.status \in {"err", "panic"}) =>
                 THREAD_RNG_KEY[TlsAddr(last.thread)].bytes_until_reseed <= 0 )
    /\ [][(/\ calls' # calls
           /\ last.op \in GenOps /\ last.status \in {"err", "panic"}
           /\ last'.thread = last.thread) =>
              /\ last'.draws >= 1
              /\ last'.dest # <<>> =>
                    /\ last'.reseeds >= 1
                    /\ last'.dest[1][1]
                          # THREAD_RNG_KEY[TlsAddr(last.thread)].inner.key
          ]_vars

\* after a failed reseed the caller called again and got a fresh word
C17_Witness ==
    /\ os["T1"].failAt = 2 /\ os["T1"].count = 3
    /\ last.thread = "T1" /\ last.op = "next_u32" /\ last.status = "ok"
    /\ last.draws = 1 /\ last.reseeds = 1 /\ last.before = 0

\* C19: every generator's threshold is 32*1024*1024 = 33554432 bytes; the
\* counter never exceeds it and is the threshold less the bytes emitted on
\* the current key, hence the threshold itself right after construction and
\* right after a reseed.
C19_ThresholdConstant ==
    /\ reseed_threshold = 32 * 1024 * 1024
    /\ \A t \in Threads :
          Initialised(t) =>
              LET g == THREAD_RNG_KEY[TlsAddr(t)] IN
              /\ g.threshold = 32 * 1024 * 1024
              /\ g.bytes_until_reseed <= g.threshold
              /\ g.bytes_until_reseed = g.threshold - g.inner.pos
              /\ hist[TlsAddr(t)].emitted = 0 => g.bytes_until_reseed = g.threshold

\* a generator that has been reseeded and has emitted one word since
C19_Witness ==
    /\ hist["T1"].seeds = 2
    /\ THREAD_RNG_KEY["T1"].threshold = 33554432
    /\ THREAD_RNG_KEY["T1"].bytes_until_reseed = 33554432 - 4

\* the requests a thread made, without what came of them
Requests(t) == [i \in 1..Len(trace[t]) |-> <<trace[t][i].op, trace[t][i].len>>]

ActiveOn(a) ==
    {t \in Threads : borrow[t] # "idle" /\ handles[t][borrow[t]].rng = a}

C18_NoUseAfterTeardown ==
    \A t \in Threads : life[t] # "undefined"

====
